---- MODULE Spec2Model ----
(***************************************************************************)
(* AxisAtom (cvxpy/atoms/axis_atom.py): an atom applied to a whole matrix  *)
(* operand, to each of its columns (axis 0) or to each of its rows         *)
(* (axis 1).  The model covers validate_arguments, size_from_args and the  *)
(* three branches of _axis_grad, with the per-slice loops as single steps. *)
(*                                                                         *)
(* Indices are 0-based as in the source.  A vector is a function on        *)
(* 0..k-1, a dense matrix a function row -> column -> entry, a sparse      *)
(* matrix a record of its shape and of its entry at every <<row, col>>.    *)
(***************************************************************************)
EXTENDS Integers, Sequences, FiniteSets

VARIABLES m, n, values, prim, axis, pc, size, todo, D, result, callArgs, placed

vars == <<m, n, values, prim, axis, pc, size, todo, D, result, callArgs, placed>>

(* ---------------------------- bounds ----------------------------------- *)

MaxRows == 3

MaxCols == 3

MaxKinks == 1

MaxAxisInt == 2

(* ---------------------- Python values of axis -------------------------- *)

NoneAxis == [tag |-> "none", v |-> 0]

IntAxis(k) == [tag |-> "int", v |-> k]

BoolAxis(k) == [tag |-> "bool", v |-> k]

StrAxis == [tag |-> "str", v |-> 0]

AxisValues ==
    {NoneAxis, StrAxis} \cup {IntAxis(k) : k \in -1..MaxAxisInt}
        \cup {BoolAxis(k) : k \in 0..1}

\* Python's `a == k` for an integer literal k: numbers (bool included)
\* compare by value, None and strings are never equal to a number.
PyEq(a, k) == a.tag \in {"int", "bool"} /\ a.v = k

\* Python's `a in [k1, k2, ...]`.
PyIn(a, lst) == \E j \in 1..Len(lst) : PyEq(a, lst[j])

(* ------------------------- numpy helpers -------------------------------- *)

\* values.T / np.transpose(values) of an r x c matrix.
Transpose(A, r, c) == [j \in 0..c-1 |-> [k \in 0..r-1 |-> A[k][j]]]

\* np.reshape(A, (r*c, 1)) of an r x c matrix: C order, row after row.
Reshape(A, r, c) == [p \in 0..r*c-1 |-> A[p \div c][p % c]]

\* A[:, j] of a matrix with r rows.
Column(A, r, j) == [k \in 0..r-1 |-> A[k][j]]

\* np.linspace(start, stop, num) for the integral steps the code asks for.
Linspace(start, stop, num) ==
    [k \in 0..num-1 |->
        IF num = 1 THEN start ELSE start + (k * (stop - start)) \div (num - 1)]

\* np.ones((num))*j
OnesTimes(num, j) == [k \in 0..num-1 |-> j]

RECURSIVE SumOver(_, _)
SumOver(f, S) ==
    IF S = {} THEN 0
    ELSE LET k == CHOOSE x \in S : TRUE IN f[k] + SumOver(f, S \ {k})

Shape(r, c) == <<r, c>>

Cells(shape) == (0..shape[1]-1) \X (0..shape[2]-1)

\* sp.csc_matrix((r, c)): the all-zero sparse matrix.
CscZero(r, c) ==
    [shape |-> Shape(r, c), val |-> [p \in Cells(Shape(r, c)) |-> 0]]

\* The check of sp.csc_matrix((data, (row, col)), shape=...): an index
\* outside the shape raises ValueError.
IndexInShape(row, col, num, shape) ==
    \A k \in 0..num-1 :
        /\ row[k] \in 0..shape[1]-1
        /\ col[k] \in 0..shape[2]-1

\* sp.csc_matrix((data, (row, col)), shape=...): entries at the same
\* position are summed.
CscFromTriples(data, row, col, num, shape) ==
    [shape |-> shape,
     val |-> [p \in Cells(shape) |->
        SumOver(data, {k \in 0..num-1 : row[k] = p[1] /\ col[k] = p[2]})]]

\* sp.csc_matrix(d) of a dense column of length num.
CscFromDense(d, num) ==
    [shape |-> Shape(num, 1), val |-> [p \in Cells(Shape(num, 1)) |-> d[p[1]]]]

\* D + E for two sparse matrices of one shape.
CscAdd(A, B) == [shape |-> A.shape, val |-> [p \in DOMAIN A.val |-> A.val[p] + B.val[p]]]

(* --------------------- the per-slice primitive -------------------------- *)

\* Stand-ins for the _column_grad of a concrete atom: a pure function of the
\* slice, returning a gradient of the slice's length or None.
PrimKinds == {"sum", "sumsq", "max", "pnorm", "undef"}

NoGrad == [none |-> TRUE, d |-> <<>>]

Grad(d) == [none |-> FALSE, d |-> d]

\* None exactly when the primitive has no gradient at the slice.
_column_grad(kind, value, k) ==
    CASE kind = "sum" -> Grad([j \in 0..k-1 |-> 1])
      [] kind = "sumsq" -> Grad([j \in 0..k-1 |-> 2 * value[j]])
      [] kind = "max" ->
            Grad([j \in 0..k-1 |->
                IF /\ \A j2 \in 0..k-1 : value[j2] <= value[j]
                   /\ \A j2 \in 0..j-1 : value[j2] < value[j]
                THEN 1 ELSE 0])
      [] kind = "pnorm" ->
            IF \E j \in 0..k-1 : value[j] <= 0 THEN NoGrad
            ELSE Grad([j \in 0..k-1 |-> value[j]])
      [] OTHER -> NoGrad

\* The primitive never returns None on any slice (it is total).
TotalPrim(kind) == kind \in {"sum", "sumsq", "max"}

(* --------------------------- operands ----------------------------------- *)

\* An m x n operand with pairwise distinct positive entries, except for the
\* entries in Z, which are 0.
Operand(r, c, Z) ==
    [k \in 0..r-1 |-> [j \in 0..c-1 |-> IF <<k, j>> \in Z THEN 0 ELSE k * c + j + 1]]

Operands(r, c) ==
    {Operand(r, c, Z) :
        Z \in {S \in SUBSET ((0..r-1) \X (0..c-1)) : Cardinality(S) <= MaxKinks}}

(* ------------------ validate_arguments, size_from_args ------------------ *)

\* validate_arguments without its `is not None` test.
validate_arguments_rejectNone(a) ==
    IF ~PyIn(a, <<0, 1>>) THEN "ValueError" ELSE "ok"

validate_arguments(a) ==
    IF a # NoneAxis /\ ~PyIn(a, <<0, 1>>) THEN "ValueError" ELSE "ok"

\* size_from_args with the two axis branches exchanged.
size_from_args_swapped(a, r, c) ==
    IF a = NoneAxis THEN <<1, 1>>
    ELSE IF PyEq(a, 0) THEN <<r, 1>>
    ELSE <<1, c>>

size_from_args(a, r, c) ==
    IF a = NoneAxis THEN <<1, 1>>
    ELSE IF PyEq(a, 0) THEN <<1, c>>
    ELSE <<r, 1>>

(* ------------------------------ _axis_grad ------------------------------ *)

NoMatrix == [shape |-> Shape(0, 0), val |-> [p \in Cells(Shape(0, 0)) |-> 0]]

Pending == [kind |-> "pending", mat |-> NoMatrix]

\* return [D]
ReturnMatrix(A) == [kind |-> "matrix", mat |-> A]

\* return [None]
ReturnNone == [kind |-> "None", mat |-> NoMatrix]

\* An exception that leaves _axis_grad.
Raise(exc) == [kind |-> exc, mat |-> NoMatrix]

\* The flattening without the transpose.
FlatValueNoTranspose == Reshape(values, m, n)

\* value = np.reshape(values[0].T, (m*n, 1))
FlatValue == Reshape(Transpose(values, m, n), n, m)

\* The axis is None branch: one call of the primitive on the flattened
\* operand; D is None, or sp.csc_matrix(D).
AxisNoneResult ==
    LET g == _column_grad(prim, FlatValue, m * n)
    IN IF g.none THEN ReturnNone ELSE ReturnMatrix(CscFromDense(g.d, m * n))

\* The slice the loop body reads: values[0][:, i] under axis 0; under axis 1
\* column i of np.transpose(values[0]).
SliceValue(i) ==
    IF PyEq(axis, 0) THEN Column(values, m, i)
    ELSE Column(Transpose(values, m, n), n, i)

SliceLen == IF PyEq(axis, 0) THEN m ELSE n

SliceCount == IF PyEq(axis, 0) THEN n ELSE m

\* row = np.linspace(i*n, i*n+m-1, m)
RowsAxis0(i, r, c) == Linspace(i * c, i * c + r - 1, r)

\* The axis 1 rows as a contiguous run, the pattern of the axis 0 branch.
RowsAxis1Contiguous(i, r, c) == Linspace(i * c, i * c + c - 1, c)

\* row = np.linspace(i, i+(n-1)*m, n)
RowsAxis1(i, r, c) == Linspace(i, i + (c - 1) * r, c)

SliceRows(i) == IF PyEq(axis, 0) THEN RowsAxis0(i, m, n) ELSE RowsAxis1(i, m, n)

\* col = np.ones((m))*i, np.ones((n))*i
SliceCols(i) == OnesTimes(SliceLen, i)

\* shape=(m*n, n), shape=(m*n, m)
GradShape == Shape(m * n, SliceCount)

\* One pass of the loop body for slice i on the running matrix A:
\* `.T` of a None raises AttributeError before `d is None` is tested, an
\* index outside the shape raises ValueError, otherwise the slice's
\* embedding is added to A.
SliceStep(i, A) ==
    LET g == _column_grad(prim, SliceValue(i), SliceLen)
        row == SliceRows(i)
        col == SliceCols(i)
    IN IF g.none THEN Raise("AttributeError")
       ELSE IF ~IndexInShape(row, col, SliceLen, GradShape) THEN Raise("ValueError")
       ELSE [kind |-> "next",
             mat |-> CscAdd(A, CscFromTriples(g.d, row, col, SliceLen, GradShape))]

\* The positions slice i writes, entry k of its derivative at <<row, col>>.
Placements(i) ==
    {[slice |-> i, k |-> k, row |-> SliceRows(i)[k], col |-> SliceCols(i)[k]] :
        k \in 0..SliceLen-1}

\* The loop `for i in range(count)` from i on, in the order of the source.
RECURSIVE AxisLoop(_, _)
AxisLoop(i, A) ==
    IF i = SliceCount THEN ReturnMatrix(A)
    ELSE LET s == SliceStep(i, A)
         IN IF s.kind = "next" THEN AxisLoop(i + 1, s.mat) ELSE s

(* ------------------------------- state ---------------------------------- *)

Min(S) == CHOOSE x \in S : \A y \in S : x <= y

Init ==
    /\ m \in 1..MaxRows
    /\ n \in 1..MaxCols
    /\ values \in Operands(m, n)
    /\ prim \in PrimKinds
    /\ axis = NoneAxis
    /\ pc = "new"
    /\ size = <<0, 0>>
    /\ todo = {}
    /\ D = NoMatrix
    /\ result = Pending
    /\ callArgs = <<>>
    /\ placed = {}

\* AxisAtom.__init__ with validate_arguments run by the base constructor.
Construct(a) ==
    /\ pc = "new"
    /\ axis' = a
    /\ pc' = IF validate_arguments(a) = "ok" THEN "ready" ELSE "invalid"
    /\ UNCHANGED <<m, n, values, prim, size, todo, D, result, callArgs, placed>>

SizeFromArgs ==
    /\ pc \in {"ready", "loop", "done"}
    /\ size = <<0, 0>>
    /\ size' = size_from_args(axis, m, n)
    /\ UNCHANGED <<m, n, values, prim, axis, pc, todo, D, result, callArgs, placed>>

\* _axis_grad with axis None.
AxisGradNone ==
    /\ pc = "ready"
    /\ axis = NoneAxis
    /\ callArgs' = Append(callArgs, FlatValue)
    /\ result' = AxisNoneResult
    /\ pc' = "done"
    /\ UNCHANGED <<m, n, values, prim, axis, size, todo, D, placed>>

\* _axis_grad with an axis: the zero matrix and the range of the loop.
AxisGradEnter ==
    /\ pc = "ready"
    /\ axis # NoneAxis
    /\ D' = CscZero(m * n, SliceCount)
    /\ todo' = 0..SliceCount-1
    /\ pc' = "loop"
    /\ UNCHANGED <<m, n, values, prim, axis, size, result, callArgs, placed>>

\* The loop body for slice i; the pass for the last slice returns [D].
LoopBody(i) ==
    LET s == SliceStep(i, D)
    IN /\ callArgs' = Append(callArgs, SliceValue(i))
       /\ IF s.kind = "next"
          THEN /\ D' = s.mat
               /\ placed' = placed \cup Placements(i)
               /\ todo' = todo \ {i}
               /\ IF todo' = {}
                  THEN pc' = "done" /\ result' = ReturnMatrix(s.mat)
                  ELSE UNCHANGED <<pc, result>>
          ELSE /\ result' = s
               /\ pc' = "done"
               /\ UNCHANGED <<D, placed, todo>>
       /\ UNCHANGED <<m, n, values, prim, axis, size>>

\* for i in range(n), axis 0
AxisGradColumn ==
    /\ pc = "loop"
    /\ PyEq(axis, 0)
    /\ LoopBody(Min(todo))

\* for i in range(m), axis 1
AxisGradRow ==
    /\ pc = "loop"
    /\ ~PyEq(axis, 0)
    /\ LoopBody(Min(todo))

Next ==
    \/ \E a \in AxisValues : Construct(a)
    \/ SizeFromArgs
    \/ AxisGradNone
    \/ AxisGradEnter
    \/ AxisGradColumn
    \/ AxisGradRow

Spec == Init /\ [][Next]_vars

\* The same loops with the slices taken in any order.
AnyOrderColumn ==
    /\ pc = "loop"
    /\ PyEq(axis, 0)
    /\ \E i \in todo : LoopBody(i)

AnyOrderRow ==
    /\ pc = "loop"
    /\ ~PyEq(axis, 0)
    /\ \E i \in todo : LoopBody(i)

NextAnyOrder ==
    \/ \E a \in AxisValues : Construct(a)
    \/ SizeFromArgs
    \/ AxisGradNone
    \/ AxisGradEnter
    \/ AnyOrderColumn
    \/ AnyOrderRow

SpecAnyOrder == Init /\ [][NextAnyOrder]_vars

(* ------------------------------ properties ------------------------------ *)

\* The axis, read as the code's comparisons read it.
IsAxis0 == PyEq(axis, 0)

IsAxis1 == PyEq(axis, 1)

InAxisSet(a) == a.tag = "none" \/ (a.tag \in {"int", "bool"} /\ a.v \in {0, 1})

\* output_entries of the gradient matrix: 1, n or m.
OutEntries == IF axis = NoneAxis THEN 1 ELSE IF IsAxis0 THEN n ELSE m

\* The operand element the axis None flattening reads at each position of
\* the vectorized operand, and the position of element (r, c) in it.
VecOrder ==
    Reshape(Transpose([r \in 0..m-1 |-> [c \in 0..n-1 |-> <<r, c>>]], m, n), n, m)

VecIndex(r, c) == CHOOSE p \in DOMAIN VecOrder : VecOrder[p] = <<r, c>>

\* Some slice of the operand has no gradient under the primitive.
SomeSliceNone == \E i \in 0..SliceCount-1 : _column_grad(prim, SliceValue(i), SliceLen).none

\* C1: under axis 0 or 1, when the primitive returns None for at least one
\* slice, _axis_grad returns [None]: no matrix, no exception.
C1_NoGradientReturned ==
    (pc = "done" /\ (IsAxis0 \/ IsAxis1) /\ SomeSliceNone) => result = ReturnNone

\* C2: for every shape, every axis in {None, 0, 1} and every primitive that
\* never returns None, _axis_grad returns a matrix of shape
\* (m*n, output_entries) and every placed entry lies inside it.
C2_ShapeAndRange ==
    (pc = "done" /\ TotalPrim(prim)) =>
        /\ result.kind = "matrix"
        /\ result.mat.shape = <<m * n, OutEntries>>
        /\ \A p \in placed : p.row \in 0..m*n-1 /\ p.col \in 0..OutEntries-1

\* C3: under axis 0, entry k of slice i's derivative is placed in column i
\* at the row that operand element (k, i) has in the transpose-then-flatten
\* vectorization of the axis None branch.
C3_Axis0Placement ==
    IsAxis0 => \A p \in placed : p.col = p.slice /\ p.row = VecIndex(p.k, p.slice)

\* C4: under axis 1, entry k of slice i's derivative is placed in column i
\* at row i + k*m, the position of operand element (i, k) in the
\* transpose-then-flatten vectorization; a returned matrix holds every such
\* entry there.
C4_Axis1Placement ==
    IsAxis1 =>
        /\ \A p \in placed :
            /\ p.col = p.slice
            /\ p.row = p.slice + p.k * m
            /\ p.row = VecIndex(p.slice, p.k)
        /\ (pc = "done" /\ result.kind = "matrix") =>
            \A i \in 0..m-1 : \A k \in 0..n-1 :
                /\ \E p \in placed : p.slice = i /\ p.k = k
                /\ result.mat.val[<<i + k * m, i>>] =
                        _column_grad(prim, [j \in 0..n-1 |-> values[i][j]], n).d[k]

C4_Witness ==
    /\ pc = "done" /\ IsAxis1 /\ m = 2 /\ n = 3 /\ prim = "sumsq"
    /\ result.kind = "matrix"
    /\ Cardinality(placed) = 6

\* C5: under axis None the primitive is called exactly once, on the vector
\* whose position c*m + r holds operand element (r, c); the result is the
\* primitive's gradient entry for entry as an (m*n, 1) matrix, or [None]
\* when the primitive returns None.
C5_AxisNone ==
    (pc = "done" /\ axis = NoneAxis) =>
        /\ Len(callArgs) = 1
        /\ callArgs[1] = [p \in 0..m*n-1 |-> values[p % m][p \div m]]
        /\ LET g == _column_grad(prim, callArgs[1], m * n)
           IN IF g.none THEN result = ReturnNone
              ELSE /\ result.kind = "matrix"
                   /\ result.mat.shape = <<m * n, 1>>
                   /\ \A p \in 0..m*n-1 : result.mat.val[<<p, 0>>] = g.d[p]

C5_Witness ==
    /\ pc = "done" /\ axis = NoneAxis /\ m = 2 /\ n = 3 /\ prim = "sumsq"
    /\ result.kind = "matrix"
    /\ result.mat.val[<<1, 0>>] = 2 * values[1][0]

\* C6: size_from_args returns (1, 1) for axis None, (1, n) for axis 0 and
\* (m, 1) for axis 1.
C6_SizeFromArgs ==
    size # <<0, 0>> =>
        /\ axis = NoneAxis => size = <<1, 1>>
        /\ IsAxis0 => size = <<1, n>>
        /\ IsAxis1 => size = <<m, 1>>

C6_Witness == size = <<1, 3>> /\ axis = IntAxis(0) /\ m = 2 /\ n = 3

\* C7: validate_arguments raises for every axis outside {None, 0, 1} and
\* completes for None, 0 and 1 (membership as Python's `in` decides it).
C7_Validate == pc # "new" => (pc = "invalid" <=> ~InAxisSet(axis))

C7_Witness == pc = "invalid" /\ axis = IntAxis(2)

\* C8: two distinct slices never write to the same row, and under axis 1
\* slice i writes only rows congruent to i mod m.
C8_DisjointRows ==
    /\ \A p, q \in placed : p.slice # q.slice => p.row # q.row
    /\ IsAxis1 => \A p \in placed : p.row % m = p.slice

\* C9: with a single slice ((m, 1) under axis 0, (1, n) under axis 1) the
\* outcome of _axis_grad is the outcome of the axis None branch on the same
\* operand and primitive.
C9_SingleSlice ==
    (pc = "done" /\ ((IsAxis0 /\ n = 1) \/ (IsAxis1 /\ m = 1))) =>
        result = AxisNoneResult

\* C10: under axis 0 and 1 the outcome of the loop is the same for every
\* order in which the slices are taken.
C10_OrderIndependent ==
    (pc = "done" /\ axis # NoneAxis) =>
        result = AxisLoop(0, CscZero(m * n, SliceCount))

====
